---- MODULE Spec2Model ----
(***************************************************************************)
(* Group-fairness scripts fair.py, fair2.py and faircompas.py: the         *)
(* statistical-parity check, the target-column preprocessing, the          *)
(* conditional parity table, the per-group TPR/FPR and the per-column      *)
(* driver, over a pandas DataFrame modelled as a sequence of rows.         *)
(***************************************************************************)
EXTENDS Integers, Sequences, FiniteSets

(***************************************************************************)
(* float64 arithmetic.  pandas' "/" on two int64 Series and Python's "/"   *)
(* on two ints are IEEE-754 binary64 divisions, and "-" and "<=" on the    *)
(* results are binary64 too.  Only non-negative values occur.  A positive  *)
(* double is kept as its exponent e and its 53-bit mantissa m, the         *)
(* mantissa as Limbs limbs of LimbBits bits each, first limb first: 54     *)
(* bits, the leading bit 1 and the 54th always 0.  The value is            *)
(* (m[1] * 2^36 + m[2] * 2^18 + m[3]) * 2^(e - 53).                        *)
(***************************************************************************)
LimbBits == 18

Limbs == 3

Base == 2 ^ LimbBits

Zero == [k |-> "zero", e |-> 0, m |-> <<0, 0, 0>>]

NaN == [k |-> "nan", e |-> 0, m |-> <<0, 0, 0>>]

\* n, d and the exponent e scaled so that d <= n < 2d
RECURSIVE Normalise(_, _, _)
Normalise(n, d, e) ==
    IF n < d THEN Normalise(2 * n, d, e - 1)
    ELSE IF n >= 2 * d THEN Normalise(n, 2 * d, e + 1)
    ELSE <<n, d, e>>

\* round to nearest, ties to even: q holds 54 bits, the last of them the
\* first dropped bit; sticky tells whether any later bit is set
Round(e, q, sticky) ==
    LET guard == q[3] % 2
        kept  == <<q[1], q[2], q[3] - guard>>
        odd   == (q[3] \div 2) % 2 = 1
        up3   == kept[3] + 2
        up2   == kept[2] + (IF up3 = Base THEN 1 ELSE 0)
        up1   == kept[1] + (IF up2 = Base THEN 1 ELSE 0)
    IN  IF guard = 1 /\ (sticky \/ odd)
        THEN IF up1 = Base
             THEN [k |-> "num", e |-> e + 1, m |-> <<Base \div 2, 0, 0>>]
             ELSE [k |-> "num", e |-> e, m |-> <<up1, up2 % Base, up3 % Base>>]
        ELSE [k |-> "num", e |-> e, m |-> kept]

\* float(n) / float(d) for integers n >= 0, d >= 1: long division, a limb
\* at a time, of the scaled n by the scaled d
F64Div(n, d) ==
    IF n = 0 THEN Zero
    ELSE LET nd == Normalise(n, d, 0)
             t1 == nd[1] * (Base \div 2)
             t2 == (t1 % nd[2]) * Base
             t3 == (t2 % nd[2]) * Base
         IN  Round(nd[3], <<t1 \div nd[2], t2 \div nd[2], t3 \div nd[2]>>,
                   t3 % nd[2] # 0)

\* a <= b on limb strings of one length
LimbsLe(a, b) ==
    \A i \in DOMAIN a : (\A j \in 1..(i - 1) : a[j] = b[j]) => a[i] <= b[i]

\* x <= y on non-negative doubles
F64Le(x, y) ==
    IF x.k = "nan" \/ y.k = "nan" THEN FALSE
    ELSE IF x.k = "zero" THEN TRUE
    ELSE IF y.k = "zero" THEN FALSE
    ELSE IF x.e # y.e THEN x.e < y.e
    ELSE LimbsLe(x.m, y.m)

\* x - y for doubles x >= y >= 0: the exact difference on 2 * Limbs limbs
\* aligned at x's leading bit, then rounded once.  y lies below the last
\* kept bit of x when the exponents differ by more than 54.
F64Sub(x, y) ==
    IF x.k = "nan" \/ y.k = "nan" THEN NaN
    ELSE IF y.k = "zero" THEN x
    ELSE IF x = y THEN Zero
    ELSE IF x.e - y.e > Limbs * LimbBits THEN x
    ELSE LET W  == 2 * Limbs
             q  == (x.e - y.e) \div LimbBits
             r  == (x.e - y.e) % LimbBits
             lo == 2 ^ r
             hi == 2 ^ (LimbBits - r)
             Y  == [i \in 0..(Limbs + 1) |-> IF i \in 1..Limbs THEN y.m[i] ELSE 0]
             A  == [i \in 1..W |-> IF i <= Limbs THEN x.m[i] ELSE 0]
             B  == [i \in 1..W |->
                      IF i - q \in 1..(Limbs + 1)
                      THEN (Y[i - q - 1] % lo) * hi + (Y[i - q] \div lo)
                      ELSE 0]
             borrow(i) == \E j \in (i + 1)..W :
                             /\ A[j] < B[j]
                             /\ \A n \in (i + 1)..(j - 1) : A[n] = B[n]
             D  == [i \in 1..(W + Limbs) |->
                      IF i <= W
                      THEN (A[i] - B[i] - (IF borrow(i) THEN 1 ELSE 0)) % Base
                      ELSE 0]
             l  == CHOOSE i \in 1..W : D[i] # 0 /\ \A j \in 1..(i - 1) : D[j] = 0
             t  == CHOOSE s \in 0..(LimbBits - 1) :
                      2 ^ (LimbBits - 1 - s) <= D[l] /\ D[l] < 2 ^ (LimbBits - s)
             up == 2 ^ t
             dn == 2 ^ (LimbBits - t)
             N  == [i \in 1..Limbs |->
                      (D[l + i - 1] % dn) * up + (D[l + i] \div dn)]
         IN  Round(x.e - (LimbBits * (l - 1) + t), N,
                   \/ D[l + Limbs] % dn # 0
                   \/ \E j \in (l + Limbs + 1)..W : D[j] # 0)

(***************************************************************************)
(* Cells, rows and frames.  A cell is an int, a str, None/NaN or a list    *)
(* of scalar cells; a row maps the frame's column names to cells; a frame  *)
(* is its set of column names and its sequence of rows.                    *)
(***************************************************************************)
IntV(n) == [kind |-> "int", val |-> n, name |-> "", items |-> <<>>]

StrV(s) == [kind |-> "str", val |-> 0, name |-> s, items |-> <<>>]

None == [kind |-> "null", val |-> 0, name |-> "", items |-> <<>>]

ListV(s) == [kind |-> "list", val |-> 0, name |-> "", items |-> s]

\* isinstance(x, list)
IsList(x) == x.kind = "list"

\* one element of the boolean Series  df[col] == v : NaN equals nothing,
\* an int never equals a str, a list never equals a scalar
CellEq(c, v) == c.kind # "null" /\ v.kind # "null" /\ c = v

\* df[mask]: the rows at the positions keep, where the mask holds, in order
Select(rows, keep) ==
    LET at(n) == CHOOSE i \in keep : Cardinality({j \in keep : j <= i}) = n
    IN  [n \in 1..Cardinality(keep) |-> rows[at(n)]]

\* the positions at which  rows[col] == v  holds
Where(rows, col, v) == {i \in DOMAIN rows : CellEq(rows[i][col], v)}

\* rows.groupby(col).size(): one entry per distinct non-null key (groupby
\* drops NaN keys), its value the number of rows with that key
GroupBySize(rows, col) ==
    LET keys == {rows[i][col] : i \in DOMAIN rows} \ {None}
    IN  [g \in keys |-> Cardinality({i \in DOMAIN rows : rows[i][col] = g})]

\* num / den on two count Series: aligned on the union of the indexes, NaN
\* where either side has no entry
SeriesDiv(num, den) ==
    [g \in DOMAIN num \cup DOMAIN den |->
        IF g \in DOMAIN num /\ g \in DOMAIN den
        THEN F64Div(num[g], den[g])
        ELSE NaN]

\* series.dropna() in the place of fillna: the NaN entries are left out
FillNa_dropna(series, v) ==
    [g \in {h \in DOMAIN series : series[h].k # "nan"} |-> series[g]]

\* series.fillna(v)
FillNa(series, v) ==
    [g \in DOMAIN series |-> IF series[g].k = "nan" THEN v ELSE series[g]]

\* max(values), min(values) over a non-empty collection of doubles
MaxOf(f) == CHOOSE x \in {f[g] : g \in DOMAIN f} : \A g \in DOMAIN f : F64Le(f[g], x)

MinOf(f) == CHOOSE x \in {f[g] : g \in DOMAIN f} : \A g \in DOMAIN f : F64Le(x, f[g])

\* the literal 0.1: the double nearest to 1/10
threshold == F64Div(1, 10)

(***************************************************************************)
(* statistical_parity_check, once per file.  The outcome of a call is its  *)
(* return value (disparities, fairness) or the exception it raises.        *)
(***************************************************************************)
Returned(disparities, fairness) ==
    [status |-> "ok", disparities |-> disparities, fairness |-> fairness]

Raised(exception) ==
    [status |-> exception, disparities |-> <<>>, fairness |-> FALSE]

NotCalled == [status |-> "none", disparities |-> <<>>, fairness |-> FALSE]

\* fair.py
statistical_parity_check(frame, sensitive_column, target_column, value) ==
    IF {sensitive_column, target_column} \subseteq frame.columns
    THEN LET hit == Where(frame.rows, target_column, value)
             proportions ==
                 FillNa(SeriesDiv(GroupBySize(Select(frame.rows, hit), sensitive_column),
                                  GroupBySize(frame.rows, sensitive_column)),
                        Zero)
             disparities == proportions
         IN  IF DOMAIN disparities = {}
             THEN Raised("ValueError")
             ELSE LET max_disparity == F64Sub(MaxOf(disparities), MinOf(disparities))
                      fairness == F64Le(max_disparity, threshold)
                  IN  Returned(disparities, fairness)
    ELSE Raised("KeyError")

\* fair2.py
statistical_parity_check_fair2(frame, sensitive_column, target_column, value) ==
    IF {sensitive_column, target_column} \subseteq frame.columns
    THEN LET hit == Where(frame.rows, target_column, value)
             proportions ==
                 FillNa(SeriesDiv(GroupBySize(Select(frame.rows, hit), sensitive_column),
                                  GroupBySize(frame.rows, sensitive_column)),
                        Zero)
             disparities == proportions
         IN  IF DOMAIN disparities = {}
             THEN Raised("ValueError")
             ELSE LET max_disparity == F64Sub(MaxOf(disparities), MinOf(disparities))
                      fairness == F64Le(max_disparity, threshold)
                  IN  Returned(disparities, fairness)
    ELSE Raised("KeyError")

\* faircompas.py
statistical_parity_check_compas(frame, sensitive_column, target_column, value) ==
    IF {sensitive_column, target_column} \subseteq frame.columns
    THEN LET hit == Where(frame.rows, target_column, value)
             proportions ==
                 FillNa(SeriesDiv(GroupBySize(Select(frame.rows, hit), sensitive_column),
                                  GroupBySize(frame.rows, sensitive_column)),
                        Zero)
             disparities == proportions
         IN  IF DOMAIN disparities = {}
             THEN Returned(<<>>, TRUE)
             ELSE LET max_disparity == F64Sub(MaxOf(disparities), MinOf(disparities))
                      fairness == F64Le(max_disparity, threshold)
                  IN  Returned(disparities, fairness)
    ELSE Raised("KeyError")

(***************************************************************************)
(* preprocess_target_column (fair.py, fair2.py: the same text)             *)
(***************************************************************************)
preprocess_target_column(frame, target_column) ==
    IF \E i \in DOMAIN frame.rows : IsList(frame.rows[i][target_column])
    THEN [frame EXCEPT !.rows =
            [i \in DOMAIN frame.rows |->
                LET x == frame.rows[i][target_column]
                IN  [frame.rows[i] EXCEPT ![target_column] =
                        IF IsList(x) /\ Len(x.items) > 0 THEN x.items[1] ELSE None]]]
    ELSE frame

(***************************************************************************)
(* conditional_statistical_parity (fair2.py), on a numeric target column:  *)
(* groupby([sensitive, control])[target].mean().unstack()                  *)
(***************************************************************************)
RECURSIVE SumOf(_, _)
SumOf(rows, col) ==
    IF rows = <<>> THEN 0 ELSE Head(rows)[col].val + SumOf(Tail(rows), col)

\* Series.mean(): NaN cells are skipped; NaN when nothing is left
MeanOf(rows, col) ==
    LET values == Select(rows, {i \in DOMAIN rows : rows[i][col].kind # "null"})
    IN  IF values = <<>> THEN NaN ELSE F64Div(SumOf(values, col), Len(values))

\* unstack(fill_value=0): 0.0 where the two never occur together
Unstack_fill_value(means) ==
    [sv \in {p[1] : p \in DOMAIN means}, cv \in {p[2] : p \in DOMAIN means} |->
        IF <<sv, cv>> \in DOMAIN means THEN means[<<sv, cv>>] ELSE Zero]

\* the unstacked frame: a row per sensitive key and a column per control
\* key that occur in some group, NaN where the two never occur together
Unstack(means) ==
    [sv \in {p[1] : p \in DOMAIN means}, cv \in {p[2] : p \in DOMAIN means} |->
        IF <<sv, cv>> \in DOMAIN means THEN means[<<sv, cv>>] ELSE NaN]

conditional_statistical_parity(frame, sensitive, target, value, control) ==
    LET keys == {<<frame.rows[i][sensitive], frame.rows[i][control]>> :
                    i \in DOMAIN frame.rows}
        groups == {p \in keys : p[1] # None /\ p[2] # None}
        means == [p \in groups |->
                    MeanOf(Select(frame.rows,
                                  {i \in DOMAIN frame.rows :
                                      /\ frame.rows[i][sensitive] = p[1]
                                      /\ frame.rows[i][control] = p[2]}),
                           target)]
    IN  Unstack(means)

(***************************************************************************)
(* evaluate_model_performance (fair2.py)                                   *)
(***************************************************************************)
\* df[col].unique(): the distinct cells in order of first appearance, NaN
\* among them
Unique(rows, col) ==
    LET first == {i \in DOMAIN rows : \A j \in 1..(i - 1) : rows[j][col] # rows[i][col]}
        at(n) == CHOOSE i \in first : Cardinality({j \in first : j <= i}) = n
    IN  [n \in 1..Cardinality(first) |-> rows[at(n)][col]]

NoMetrics == [status |-> "none", metrics |-> <<>>]

\* the loop over the groups, from the groups still to do and the metrics
\* so far; a division by a zero count raises and ends the call
RECURSIVE performance_loop(_, _, _, _, _, _)
performance_loop(frame, sensitive, target, prediction, groups, metrics) ==
    IF groups = <<>> THEN [status |-> "ok", metrics |-> metrics]
    ELSE LET group == Head(groups)
             group_data == Select(frame.rows, Where(frame.rows, sensitive, group))
             pred1 == Where(group_data, prediction, IntV(1))
             is1 == Where(group_data, target, IntV(1))
             is0 == Where(group_data, target, IntV(0))
             tp == Select(group_data, is1 \cap pred1)
             p  == Select(group_data, is1)
             fp == Select(group_data, is0 \cap pred1)
             n  == Select(group_data, is0)
         IN  IF Len(p) = 0 \/ Len(n) = 0
             THEN [status |-> "ZeroDivisionError", metrics |-> <<>>]
             ELSE performance_loop(frame, sensitive, target, prediction, Tail(groups),
                    [g \in DOMAIN metrics \cup {group} |->
                        IF g = group
                        THEN [TPR |-> F64Div(Len(tp), Len(p)),
                              FPR |-> F64Div(Len(fp), Len(n))]
                        ELSE metrics[g]])

evaluate_model_performance(frame, sensitive, target, prediction) ==
    performance_loop(frame, sensitive, target, prediction,
                     Unique(frame.rows, sensitive), <<>>)

(***************************************************************************)
(* analyze_fairness (fair.py, faircompas.py).  What a call prints is kept  *)
(* as one entry per column it got to; an exception out of the check ends   *)
(* the loop and leaves the call.                                           *)
(***************************************************************************)
Entry(column, kind, r) ==
    [column |-> column, kind |-> kind, disparities |-> r.disparities,
     fairness |-> r.fairness]

NoAnalysis == [status |-> "none", out |-> <<>>]

\* fair.py
RECURSIVE analyze_fairness_loop(_, _, _, _, _)
analyze_fairness_loop(frame, columns, target, value, out) ==
    IF columns = <<>> THEN [status |-> "ok", out |-> out]
    ELSE LET sensitive_column == Head(columns)
             r == statistical_parity_check(frame, sensitive_column, target, value)
         IN  IF sensitive_column \in frame.columns
             THEN IF r.status # "ok"
                  THEN [status |-> r.status, out |-> out]
                  ELSE analyze_fairness_loop(frame, Tail(columns), target, value,
                           Append(out, Entry(sensitive_column, "result", r)))
             ELSE analyze_fairness_loop(frame, Tail(columns), target, value,
                      Append(out, Entry(sensitive_column, "not_found", NotCalled)))

analyze_fairness(frame, columns, target, value) ==
    analyze_fairness_loop(frame, columns, target, value, <<>>)

\* faircompas.py: the result is printed only when disparities is not
\* empty; for the empty one the check has printed its own "no valid data"
RECURSIVE analyze_fairness_compas_loop(_, _, _, _, _)
analyze_fairness_compas_loop(frame, columns, target, value, out) ==
    IF columns = <<>> THEN [status |-> "ok", out |-> out]
    ELSE LET sensitive_column == Head(columns)
             r == statistical_parity_check_compas(frame, sensitive_column, target, value)
         IN  IF sensitive_column \in frame.columns
             THEN IF r.status # "ok"
                  THEN [status |-> r.status, out |-> out]
                  ELSE analyze_fairness_compas_loop(frame, Tail(columns), target, value,
                           Append(out, Entry(sensitive_column,
                                             IF DOMAIN r.disparities # {}
                                             THEN "result" ELSE "no_data", r)))
             ELSE analyze_fairness_compas_loop(frame, Tail(columns), target, value,
                      Append(out, Entry(sensitive_column, "not_found", NotCalled)))

analyze_fairness_compas(frame, columns, target, value) ==
    analyze_fairness_compas_loop(frame, columns, target, value, <<>>)

(***************************************************************************)
(* State: the frame and the arguments the __main__ blocks read, and the    *)
(* outcome of each call made so far.                                       *)
(***************************************************************************)
VARIABLES df, sensitive_columns, target_value, preprocessed, parity, analysis,
          performance, grouped

vars == <<df, sensitive_columns, target_value, preprocessed, parity, analysis,
          performance, grouped>>

\* the column names typed at the prompts
target_column == "labels"

sensitive_column == "group"

control_column == "ctrl"

prediction_column == "pred"

A == StrV("A")

B == StrV("B")

MaxRows == 3

MaxPos == 3

MaxNeg == 7

MaxCols == 2

MaxOrchRows == 2

MaxPerfRows == 3

SeqsUpTo(S, n) == UNION {[1..k -> S] : k \in 0..n}

Frame(columns, rows) == [columns |-> columns, rows |-> rows]

NoParity == [fair |-> NotCalled, fair2 |-> NotCalled, compas |-> NotCalled]

NoAnalyses == [fair |-> NoAnalysis, compas |-> NoAnalysis]

NotGrouped == [called |-> FALSE, table |-> <<>>]

Fresh ==
    /\ preprocessed = FALSE
    /\ parity = NoParity
    /\ analysis = NoAnalyses
    /\ performance = NoMetrics
    /\ grouped = NotGrouped

(***************************************************************************)
(* The calls                                                               *)
(***************************************************************************)
Preprocess ==
    /\ ~preprocessed
    /\ df' = preprocess_target_column(df, target_column)
    /\ preprocessed' = TRUE
    /\ UNCHANGED <<sensitive_columns, target_value, parity, analysis, performance,
                   grouped>>

CheckFair ==
    /\ parity.fair = NotCalled
    /\ parity' = [parity EXCEPT !.fair =
                    statistical_parity_check(df, sensitive_column, target_column,
                                             target_value)]
    /\ UNCHANGED <<df, sensitive_columns, target_value, preprocessed, analysis,
                   performance, grouped>>

CheckFair2 ==
    /\ parity.fair2 = NotCalled
    /\ parity' = [parity EXCEPT !.fair2 =
                    statistical_parity_check_fair2(df, sensitive_column, target_column,
                                                   target_value)]
    /\ UNCHANGED <<df, sensitive_columns, target_value, preprocessed, analysis,
                   performance, grouped>>

CheckCompas ==
    /\ parity.compas = NotCalled
    /\ parity' = [parity EXCEPT !.compas =
                    statistical_parity_check_compas(df, sensitive_column, target_column,
                                                    target_value)]
    /\ UNCHANGED <<df, sensitive_columns, target_value, preprocessed, analysis,
                   performance, grouped>>

AnalyzeFair ==
    /\ analysis.fair = NoAnalysis
    /\ analysis' = [analysis EXCEPT !.fair =
                      analyze_fairness(df, sensitive_columns, target_column,
                                       target_value)]
    /\ UNCHANGED <<df, sensitive_columns, target_value, preprocessed, parity,
                   performance, grouped>>

AnalyzeCompas ==
    /\ analysis.compas = NoAnalysis
    /\ analysis' = [analysis EXCEPT !.compas =
                      analyze_fairness_compas(df, sensitive_columns, target_column,
                                              target_value)]
    /\ UNCHANGED <<df, sensitive_columns, target_value, preprocessed, parity,
                   performance, grouped>>

EvaluatePerformance ==
    /\ performance = NoMetrics
    /\ prediction_column \in df.columns
    /\ performance' = evaluate_model_performance(df, sensitive_columns[1],
                                                 target_column, prediction_column)
    /\ UNCHANGED <<df, sensitive_columns, target_value, preprocessed, parity, analysis,
                   grouped>>

ConditionalParity ==
    /\ grouped = NotGrouped
    /\ control_column \in df.columns
    /\ grouped' = [called |-> TRUE,
                   table |-> conditional_statistical_parity(df, sensitive_columns[1],
                                target_column, target_value, control_column)]
    /\ UNCHANGED <<df, sensitive_columns, target_value, preprocessed, parity, analysis,
                   performance>>

(***************************************************************************)
(* Specifications: the frames each is run on                               *)
(***************************************************************************)
\* the three statistical_parity_check on small frames, rows in any order
ParityRows == [group : {A, B, None}, labels : {IntV(1), IntV(0), None}]

Init ==
    /\ df \in {Frame({"group", "labels"}, rows) : rows \in SeqsUpTo(ParityRows, MaxRows)}
    /\ sensitive_columns = <<sensitive_column>>
    /\ target_value \in {IntV(1), StrV("1")}
    /\ Fresh

Next == CheckFair \/ CheckFair2 \/ CheckCompas

Spec == Init /\ [][Next]_vars

\* preprocess_target_column on columns that mix lists, scalars and None
NormCells == {IntV(1), None, ListV(<<>>), ListV(<<IntV(1)>>), ListV(<<IntV(0), IntV(1)>>)}

InitNorm ==
    /\ df \in {Frame({"group", "labels"}, rows) :
                 rows \in SeqsUpTo([group : {A}, labels : NormCells], MaxRows)}
    /\ sensitive_columns = <<sensitive_column>>
    /\ target_value = IntV(1)
    /\ Fresh

NextNorm == Preprocess

SpecNorm == InitNorm /\ [][NextNorm]_vars

\* statistical_parity_check on frames of two groups given by their counts
\* of rows with label 1 and label 0 (the check reads nothing but counts)
Repeat(n, row) == [i \in 1..n |-> row]

CountFrame(a1, a0, b1, b0) ==
    Frame({"group", "labels"},
          Repeat(a1, [group |-> A, labels |-> IntV(1)])
          \o Repeat(a0, [group |-> A, labels |-> IntV(0)])
          \o Repeat(b1, [group |-> B, labels |-> IntV(1)])
          \o Repeat(b0, [group |-> B, labels |-> IntV(0)]))

InitBoundary ==
    /\ df \in {CountFrame(a1, a0, b1, b0) :
                 a1 \in 0..MaxPos, a0 \in 0..MaxNeg, b1 \in 0..MaxPos, b0 \in 0..MaxNeg}
    /\ sensitive_columns = <<sensitive_column>>
    /\ target_value = IntV(1)
    /\ Fresh

SpecBoundary == InitBoundary /\ [][Next]_vars

\* analyze_fairness over lists of column names, some of them not columns
OrchRows == [group : {A, B, None}, sex : {StrV("M"), None}, labels : {IntV(1), IntV(0)}]

InitOrch ==
    /\ df \in {Frame({"group", "sex", "labels"}, rows) :
                 rows \in SeqsUpTo(OrchRows, MaxOrchRows)}
    /\ sensitive_columns \in SeqsUpTo({"missing_col", "group", "sex"}, MaxCols)
    /\ target_value = IntV(1)
    /\ Fresh

NextOrch == AnalyzeFair \/ AnalyzeCompas

SpecOrch == InitOrch /\ [][NextOrch]_vars

\* evaluate_model_performance, labels and predictions 0, 1 or 2
PerfRows == [group : {A, B, None}, labels : {IntV(0), IntV(1), IntV(2)},
             pred : {IntV(0), IntV(1), IntV(2)}]

InitPerf ==
    /\ df \in {Frame({"group", "labels", "pred"}, rows) :
                 rows \in SeqsUpTo(PerfRows, MaxPerfRows)}
    /\ sensitive_columns = <<sensitive_column>>
    /\ target_value = IntV(1)
    /\ Fresh

NextPerf == EvaluatePerformance

SpecPerf == InitPerf /\ [][NextPerf]_vars

\* conditional_statistical_parity, two groups crossed with two controls
CondRows ==
    [group : {A, B}, ctrl : {StrV("X"), StrV("Y")}, labels : {IntV(1), IntV(0), None}]
    \cup {[group |-> A, ctrl |-> None, labels |-> IntV(1)]}

InitCond ==
    /\ df \in {Frame({"group", "ctrl", "labels"}, rows) :
                 rows \in SeqsUpTo(CondRows, MaxRows)}
    /\ sensitive_columns = <<sensitive_column>>
    /\ target_value = IntV(1)
    /\ Fresh

NextCond == ConditionalParity

SpecCond == InitCond /\ [][NextCond]_vars

(***************************************************************************)
(* Properties.  The counts they speak of are taken straight from the rows  *)
(* of df, not through the pandas operators above.                          *)
(***************************************************************************)
Variants == {"fair", "fair2", "compas"}

\* the non-null values of a column
GroupsOf(frame, column) == {frame.rows[i][column] : i \in DOMAIN frame.rows} \ {None}

\* the rows of group g, and those of them whose target cell equals v
RowsOf(g) == {i \in DOMAIN df.rows : df.rows[i].group = g}

HitsOf(g, v) == {i \in RowsOf(g) : df.rows[i].labels = v}

\* what the normalizer is to leave in a target cell
Scalar(x) == IF IsList(x) THEN (IF x.items # <<>> THEN x.items[1] ELSE None) ELSE x

\* one outcome per listed column, in order, from a call of analyze_fairness
OneOutcomePerColumn(call, file) ==
    call # NoAnalysis =>
        /\ call.status = "ok"
        /\ Len(call.out) = Len(sensitive_columns)
        /\ \A i \in DOMAIN sensitive_columns :
              LET column == sensitive_columns[i]
                  r == IF file = "fair"
                       THEN statistical_parity_check(df, column, target_column,
                                                     target_value)
                       ELSE statistical_parity_check_compas(df, column, target_column,
                                                            target_value)
              IN  /\ call.out[i].column = column
                  /\ column \notin df.columns => call.out[i].kind = "not_found"
                  /\ column \in df.columns =>
                        /\ call.out[i].kind \in {"result", "no_data"}
                        /\ r.status = "ok"
                        /\ call.out[i].disparities = r.disparities
                        /\ call.out[i].fairness = r.fairness

\* ground-truth positives and negatives of group g, and the rows among
\* some rows that are predicted 1
Positives(g) == {i \in RowsOf(g) : df.rows[i].labels = IntV(1)}

Negatives(g) == {i \in RowsOf(g) : df.rows[i].labels = IntV(0)}

Predicted(rows) == {i \in rows : df.rows[i].pred = IntV(1)}

\* a rate, undefined over no rows
Rate(hits, of) == IF of = {} THEN NaN ELSE F64Div(Cardinality(hits), Cardinality(of))

\* every group has a row of target 1 and a row of target 0, NaN is no group
EveryRateDefined ==
    /\ \A i \in DOMAIN df.rows : df.rows[i].group # None
    /\ \A g \in GroupsOf(df, "group") : Positives(g) # {} /\ Negatives(g) # {}

\* hits(g)/rows(g) - hits(h)/rows(h) <= 1/10, resp. = 1/10, in exact arithmetic
WithinTenth(g, h) ==
    10 * (Cardinality(HitsOf(g, target_value)) * Cardinality(RowsOf(h))
          - Cardinality(HitsOf(h, target_value)) * Cardinality(RowsOf(g)))
        <= Cardinality(RowsOf(g)) * Cardinality(RowsOf(h))

ExactlyTenth(g, h) ==
    10 * (Cardinality(HitsOf(g, target_value)) * Cardinality(RowsOf(h))
          - Cardinality(HitsOf(h, target_value)) * Cardinality(RowsOf(g)))
        = Cardinality(RowsOf(g)) * Cardinality(RowsOf(h))

\* a row whose target or prediction is neither 0 nor 1
InvalidLabel(i) ==
    \/ df.rows[i].labels \notin {IntV(0), IntV(1)}
    \/ df.rows[i].pred \notin {IntV(0), IntV(1)}

\* the rows of a (sensitive, control) pair, and the rows with a target
PairRows(s, c) == {i \in DOMAIN df.rows : df.rows[i].group = s /\ df.rows[i].ctrl = c}

Labelled(rows) == {i \in rows : df.rows[i].labels # None}

\* C1: preprocess_target_column leaves, in every row, the first element of
\* a non-empty list, None for an empty list, and a cell that is not a list
\* as it was, also when lists and scalars are mixed in the column.
C1_NormalizerPerCell ==
    [][Preprocess =>
         \A i \in DOMAIN df.rows : df'.rows[i].labels = Scalar(df.rows[i].labels)]_vars

\* C2: on a frame with no sensitive-column value at all (no rows, or the
\* column None in every row) every statistical_parity_check returns the
\* empty proportion map and fairness = True, and does not fail.
C2_NoGroupsVacuouslyFair ==
    \A v \in Variants :
        (parity[v] # NotCalled /\ GroupsOf(df, "group") = {})
            => parity[v] = Returned(<<>>, TRUE)

\* C3: analyze_fairness gives every listed column, in order, exactly one
\* outcome: "not found" for a name that is not a column, the statistical
\* parity result otherwise; a missing column does not stop the later ones.
C3_OneOutcomePerColumn ==
    /\ OneOutcomePerColumn(analysis.fair, "fair")
    /\ OneOutcomePerColumn(analysis.compas, "compas")

\* C4: evaluate_model_performance completes with metrics for every group;
\* a group with no row of target 1 has TPR undefined and its FPR computed,
\* a group with no row of target 0 has FPR undefined and its TPR computed.
C4_UndefinedRateIsSentinel ==
    performance # NoMetrics =>
        /\ performance.status = "ok"
        /\ DOMAIN performance.metrics = GroupsOf(df, "group")
        /\ \A g \in GroupsOf(df, "group") :
              /\ performance.metrics[g].TPR = Rate(Predicted(Positives(g)), Positives(g))
              /\ performance.metrics[g].FPR = Rate(Predicted(Negatives(g)), Negatives(g))

\* C5: the proportion map a statistical_parity_check returns has one entry
\* per non-null value of the sensitive column; the entry of g is (rows of
\* g whose target equals target_value) / (all rows of g, whatever their
\* target); a group without a matching row is in the map with 0, and that
\* 0 counts in max - min: with it, the verdict is that of the largest
\* proportion alone.
C5_ProportionPerGroup ==
    \A v \in Variants :
        parity[v].status = "ok" =>
            /\ DOMAIN parity[v].disparities = GroupsOf(df, "group")
            /\ \A g \in GroupsOf(df, "group") :
                  /\ parity[v].disparities[g] =
                        F64Div(Cardinality(HitsOf(g, target_value)),
                               Cardinality(RowsOf(g)))
                  /\ HitsOf(g, target_value) = {} => parity[v].disparities[g] = Zero
            /\ (\E g \in GroupsOf(df, "group") : HitsOf(g, target_value) = {}) =>
                  (parity[v].fairness <=>
                     \A h \in GroupsOf(df, "group") :
                        F64Le(F64Div(Cardinality(HitsOf(h, target_value)),
                                     Cardinality(RowsOf(h))),
                              F64Div(1, 10)))

\* a group without a match beside a group with one, a row of null target
\* in its denominator, and the 0 deciding the verdict
C5_Witness ==
    /\ parity.fair.status = "ok"
    /\ parity.compas.status = "ok"
    /\ RowsOf(A) # {}
    /\ HitsOf(A, target_value) = {}
    /\ HitsOf(B, target_value) # {}
    /\ \E i \in RowsOf(B) : df.rows[i].labels = None
    /\ parity.fair.disparities[A] = Zero
    /\ parity.fair.disparities[B] = F64Div(1, 2)
    /\ ~parity.fair.fairness

\* C6: with at least one group, fairness = True exactly when the largest
\* proportion minus the smallest is at most 1/10, the boundary included,
\* the proportions taken as exact ratios of counts.
C6_FairIffWithinThreshold ==
    \A v \in {"fair", "compas"} :
        (parity[v] # NotCalled /\ GroupsOf(df, "group") # {}) =>
            /\ parity[v].status = "ok"
            /\ parity[v].fairness <=>
                  \A g, h \in GroupsOf(df, "group") : WithinTenth(g, h)

\* C7: a row whose target or prediction is neither 0 nor 1 makes
\* evaluate_model_performance fail with InvalidLabel; no metrics are
\* returned over such rows.  Stated on the frames where every group has a
\* row of target 1 and a row of target 0, so that no rate divides by zero.
C7_InvalidLabelFails ==
    (/\ performance # NoMetrics
     /\ \E i \in DOMAIN df.rows : InvalidLabel(i)
     /\ EveryRateDefined)
        => performance.status = "InvalidLabel"

\* C8: the table conditional_statistical_parity returns holds a value for
\* a (sensitive, control) pair only if some row has the pair; a pair of an
\* occurring sensitive value and an occurring control value that no row
\* has holds NaN, which is not the mean 0.0; a value that is held is the
\* mean of the target over the pair's rows (those with a target).
C8_ConditionalMatrix ==
    grouped.called =>
        /\ \A s \in GroupsOf(df, "group"), c \in GroupsOf(df, "ctrl") :
              PairRows(s, c) # {} => <<s, c>> \in DOMAIN grouped.table
        /\ \A p \in DOMAIN grouped.table :
              LET rows == PairRows(p[1], p[2])
                  ones == {i \in rows : df.rows[i].labels = IntV(1)}
              IN  /\ grouped.table[p].k # "nan" => rows # {}
                  /\ rows = {} => grouped.table[p] = NaN /\ grouped.table[p] # Zero
                  /\ grouped.table[p].k # "nan" =>
                        grouped.table[p] =
                            F64Div(Cardinality(ones), Cardinality(Labelled(rows)))
                  /\ Labelled(rows) # {} => grouped.table[p].k # "nan"

\* two pairs on the diagonal, one of mean 0.0, and a pair without rows
C8_Witness ==
    /\ grouped.called
    /\ PairRows(A, StrV("X")) # {}
    /\ PairRows(B, StrV("Y")) # {}
    /\ PairRows(A, StrV("Y")) = {}
    /\ grouped.table[<<A, StrV("Y")>>] = NaN
    /\ grouped.table[<<A, StrV("X")>>] = Zero
    /\ grouped.table[<<B, StrV("Y")>>].k = "num"

\* C9: the three statistical_parity_check are one function: on every
\* frame and target value, the frame without groups included, they end
\* with the same outcome.
C9_ThreeVariantsAgree ==
    (\A v \in Variants : parity[v] # NotCalled) =>
        parity.fair = parity.fair2 /\ parity.fair2 = parity.compas

\* C10: when target_value equals the target cell of no row of a non-empty
\* frame, statistical_parity_check raises nothing, every proportion is 0
\* and fairness = True.
C10_NoMatchAllZeroFair ==
    (/\ parity.fair # NotCalled
     /\ df.rows # <<>>
     /\ \A i \in DOMAIN df.rows : df.rows[i].labels # target_value)
        => /\ parity.fair.status = "ok"
           /\ \A g \in DOMAIN parity.fair.disparities : parity.fair.disparities[g] = Zero
           /\ parity.fair.fairness

(***************************************************************************)
(* What does hold around the statements the code breaks                    *)
(***************************************************************************)
\* preprocess_target_column is right on a column of lists only, and leaves
\* a column without lists alone (SpecNorm)
NormalizerOnUnmixedColumns ==
    [][(/\ Preprocess
        /\ \/ \A i \in DOMAIN df.rows : IsList(df.rows[i].labels)
           \/ \A i \in DOMAIN df.rows : ~IsList(df.rows[i].labels))
       => \A i \in DOMAIN df.rows : df'.rows[i].labels = Scalar(df.rows[i].labels)]_vars

\* faircompas.py returns ({}, True) on a frame without groups (Spec)
CompasNoGroupsVacuouslyFair ==
    (parity.compas # NotCalled /\ GroupsOf(df, "group") = {})
        => parity.compas = Returned(<<>>, TRUE)

\* faircompas.py's analyze_fairness gives every column its outcome, and
\* fair.py's does when each listed column that exists has a group (SpecOrch)
OneOutcomePerColumnWithGroups ==
    /\ OneOutcomePerColumn(analysis.compas, "compas")
    /\ (\A i \in DOMAIN sensitive_columns :
           sensitive_columns[i] \in df.columns => GroupsOf(df, sensitive_columns[i]) # {})
       => OneOutcomePerColumn(analysis.fair, "fair")

\* evaluate_model_performance fails exactly when some group, NaN among
\* them, lacks a row of target 1 or a row of target 0, and returns the
\* rates otherwise (SpecPerf)
PerformanceWhereDefined ==
    performance # NoMetrics =>
        /\ performance.status = "ZeroDivisionError" <=> ~EveryRateDefined
        /\ EveryRateDefined => C4_UndefinedRateIsSentinel

\* off the exact boundary the float64 verdict is the exact one (SpecBoundary)
FairIffWithinThresholdOffBoundary ==
    \A v \in Variants :
        (/\ parity[v].status = "ok"
         /\ ~\E g, h \in GroupsOf(df, "group") : ExactlyTenth(g, h))
        => (parity[v].fairness <=> \A g, h \in GroupsOf(df, "group") : WithinTenth(g, h))

\* with a group in the frame the three files agree, and no match gives
\* all proportions 0 and fairness = True (Spec)
ThreeVariantsAgreeWithAGroup ==
    GroupsOf(df, "group") # {} => C9_ThreeVariantsAgree

NoMatchAllZeroFairWithAGroup ==
    GroupsOf(df, "group") # {} => C10_NoMatchAllZeroFair
====
